---------------------------- MODULE Spec2Model ----------------------------
(***************************************************************************)
(* Model of the two singly-linked lists of scalex:                         *)
(*   global_lock_impl<T>  (src/global_lock_impl.hpp), the "LockedList",    *)
(*   lock_free_impl<T>    (src/lock_free_impl.hpp),   the "LockFreeList".  *)
(* The markable atomic reference atomic_ref_ptr and the intrusive counter  *)
(* atomic_ref_counted (atomic_reference.hpp) are not part of the sources   *)
(* at hand; they are modelled from the specification's section 6.          *)
(***************************************************************************)
EXTENDS Integers, Sequences, FiniteSets, TLC

(***************************************************************************)
(* Bounds of the model.                                                    *)
(***************************************************************************)
NValues == 2
MaxOps == 4
MaxLen == 2
MaxSeqLen == 4
NWorkers == 2
NPushes == 2
MaxCopies == 2

(***************************************************************************)
(* Program constants.                                                      *)
(***************************************************************************)
\* node_ptr(): the empty reference.
Nil == 0
\* T(): the value-initialised element, also the sentinel's value_.
DefaultT == 0
\* mutex_(): the mutex is constructed unlocked; else it names its holder.
Unlocked == 0
\* head_(new node): the first node allocated is the sentinel.
Sentinel == 1

Values == 1 .. NValues
\* The worker threads, and the main thread that builds the list and starts them.
Workers == 1 .. NWorkers
Threads == 0 .. NWorkers
Main == CHOOSE t \in Threads : t \notin Workers

\* The lock-free scenarios push at most this many nodes (setup and workers).
MaxScenarioPushes == 5 + (2 + NPushes) * NWorkers
MaxNodes == 1 + MaxOps + MaxScenarioPushes
Nodes == 1 .. MaxNodes
NodeRef == Nodes \cup {Nil}

VARIABLES
    \* ---- lock_free_impl ----
    value_,        \* node::value_
    next_,         \* node::next_ (the reference part of the markable link)
    marked,        \* node::next_ (the mark bit of the markable link)
    alloc,         \* "free" (never allocated), "live", "dead" (destroyed),
                   \* "lost" (alive, its only reference outside the list)
    ndebug,        \* TRUE when the build compiles the assert()s out
    aborted,       \* the process died: a failed assert(), or a crash
    dtorUnmarked,  \* some node was destroyed while its link was unmarked
    ub,            \* a destroyed node was accessed through a raw pointer
    pc,            \* each thread's position in its lock-free call
    arg,           \* the val argument of the running call
    p, pp, cur,    \* the locals of the running call (pp: the node owning *pp)
    ret,           \* what the thread's last front() returned
    prog,          \* the calls each thread still has to make
    marks,         \* per node, how many mark() calls on its link returned true
    unlinks,       \* per node, how often a thread physically unlinked it
    \* ---- global_lock_impl ----
    head_,         \* global_lock_impl::head_
    tail_,         \* global_lock_impl::tail_
    gl_next,       \* node::next_ of the locked list's nodes
    gl_value,      \* node::value_ of the locked list's nodes
    mutex_,        \* the thread whose iterator holds mutex_, or Unlocked
    iters,         \* node_ of the live copies of the iterator holding the lock
    waiting,       \* the threads blocked in a call, waiting for mutex_
    gl_ret,        \* what the last completed call returned
    \* ---- callers ----
    plan,          \* the calls each thread was started with (prog at the start)
    log,           \* the calls a single-threaded caller has made so far
    snapLF, snapGL,\* what iteration yielded when the last call was made
    rtS, rtOut, rtPhase  \* round trip: the input, the drained values, the phase

lfvars == <<value_, next_, marked, alloc, ndebug, aborted, dtorUnmarked, ub,
            pc, arg, p, pp, cur, ret, prog, marks, unlinks>>
glvars == <<head_, tail_, gl_next, gl_value, mutex_, iters, waiting, gl_ret>>
callervars == <<plan, log, snapLF, snapGL, rtS, rtOut, rtPhase>>
vars == <<lfvars, glvars, callervars>>

(***************************************************************************)
(* Reference counting (atomic_ref_counted / atomic_ref_ptr): a node lives  *)
(* while head_, a live node's next_ or a thread's node_ptr local refers to *)
(* it; when the last reference goes the node is destroyed, and its own     *)
(* next_ member with it.  pp is a raw pointer and holds no reference.      *)
(***************************************************************************)
Referenced(st, nx, pF, curF, n) ==
    \/ n = Sentinel
    \/ \E t \in Threads : pF[t] = n \/ curF[t] = n
    \/ \E m \in Nodes : st[m] = "live" /\ nx[m] = n

RECURSIVE Collect(_, _, _, _)
Collect(st, nx, pF, curF) ==
    LET gone == {n \in Nodes : st[n] = "live" /\ ~Referenced(st, nx, pF, curF, n)}
    IN  IF gone = {} THEN st
        ELSE Collect([n \in Nodes |-> IF n \in gone THEN "dead" ELSE st[n]],
                     nx, pF, curF)

\* ~node(): assert(next_.get_mark()) holds for every node destroyed.
DtorAssertOk(stBefore, stAfter, mk) ==
    \A n \in Nodes : (stBefore[n] = "live" /\ stAfter[n] = "dead") => mk[n]

\* new node(...): the next unused node.
NewNode == CHOOSE n \in Nodes : alloc[n] = "free" /\ \A m \in Nodes : alloc[m] = "free" => n <= m

(***************************************************************************)
(* The markable reference (specification, section 6).                      *)
(***************************************************************************)
\* compare_exchange_strong(expected, desired) on the link of node o: succeeds
\* iff the link holds (expected, unmarked).
CasSucceeds(o, expected) == next_[o] = expected /\ ~marked[o]

\* mark() on the link of node o: TRUE iff this call sets the bit.
MarkSucceeds(o) == ~marked[o]

\* The nodes a traversal reaches from the sentinel's link, in order.
RECURSIVE Chain(_, _)
Chain(n, fuel) ==
    IF n = Nil \/ fuel = 0 THEN <<>> ELSE <<n>> \o Chain(next_[n], fuel - 1)

Reachable == Chain(next_[Sentinel], MaxNodes)

\* A caller's view "the list has an element": some reachable unmarked node.
HasLive == \E i \in 1 .. Len(Reachable) : ~marked[Reachable[i]]


(***************************************************************************)
(* Traversals of a quiescent lock-free list.                               *)
(***************************************************************************)
\* size(): "if (!cur->is_marked());" ends in an empty statement, so ret++
\* runs for every node reached, marked or not.
RECURSIVE LF_size_loop(_, _, _)
LF_size_loop(c, r, fuel) ==
    IF c = Nil \/ fuel = 0 THEN r ELSE LF_size_loop(next_[c], r + 1, fuel - 1)

LF_size == LF_size_loop(next_[Sentinel], 0, MaxNodes)

\* begin(): the iterator starts at head_->next_, whatever its mark.
LF_begin == next_[Sentinel]

\* iterator_::operator++: step at least once, then over marked nodes.
RECURSIVE LF_incr(_, _)
LF_incr(n, fuel) ==
    LET m == next_[n]
    IN  IF m /= Nil /\ marked[m] /\ fuel > 0 THEN LF_incr(m, fuel - 1) ELSE m

\* for (it = begin(); it != end(); ++it): the nodes the iterator stands on.
RECURSIVE LF_iter_nodes(_, _)
LF_iter_nodes(n, fuel) ==
    IF n = Nil \/ fuel = 0 THEN <<>>
    ELSE <<n>> \o LF_iter_nodes(LF_incr(n, MaxNodes), fuel - 1)

LF_iterate ==
    LET ns == LF_iter_nodes(LF_begin, MaxNodes)
    IN  [i \in 1 .. Len(ns) |-> value_[ns[i]]]

(***************************************************************************)
(* Steps of the lock-free calls.  Every step is one access to shared       *)
(* memory together with the thread-local work that follows it.             *)
(***************************************************************************)
NoArg == [kind |-> "none", v |-> DefaultT]

\* The state after a step of thread t: locals, heap, and reference counts
\* settled (nodes left without a reference are destroyed).
LFCommit(t, pcT, pT, ppT, curT, nx, mk, vl, st, dtorBad, ubN, crash) ==
    LET done  == pcT = "idle"
        pF    == [p EXCEPT ![t] = IF done THEN Nil ELSE pT]
        curF  == [cur EXCEPT ![t] = IF done THEN Nil ELSE curT]
        st2   == Collect(st, nx, pF, curF)
        bad   == dtorBad \/ ~DtorAssertOk(st, st2, mk)
    IN  /\ pc' = [pc EXCEPT ![t] = pcT]
        /\ p' = pF
        /\ cur' = curF
        /\ pp' = [pp EXCEPT ![t] = IF done THEN Nil ELSE ppT]
        /\ arg' = [arg EXCEPT ![t] = IF done THEN DefaultT ELSE arg[t]]
        /\ next_' = nx
        /\ marked' = mk
        /\ value_' = vl
        /\ alloc' = st2
        /\ dtorUnmarked' = (dtorUnmarked \/ bad)
        /\ ub' = (ub \/ ubN)
        /\ aborted' = (crash \/ (bad /\ ~ndebug))
        /\ UNCHANGED <<ndebug, prog>>

\* assert(!head_->is_marked()) aborts a build with assertions.
HeadAssertFails == marked[Sentinel] /\ ~ndebug

\* What a compare_exchange_strong through a dangling pp may do.
UBOutcomes == {"fail", "write", "crash"}


\* A step that only reads: the heap and the instrumentation stay.
LFRead(t, pcT, pT, ppT, curT, crash) ==
    /\ LFCommit(t, pcT, pT, ppT, curT, next_, marked, value_, alloc,
                FALSE, FALSE, crash)
    /\ UNCHANGED <<marks, unlinks, glvars, callervars>>

Bump(f, n) == [f EXCEPT ![n] = IF @ < 2 THEN @ + 1 ELSE @]

FirstLabel(kind) ==
    CASE kind = "push_back" -> "push_head"
      [] kind = "pop_front" -> "pop_head"
      [] kind = "front"     -> "front_head"
      [] kind = "remove"    -> "rem_head"

\* The caller: thread t makes the next call of its program.  Workers run
\* once the main thread has built the list.  A caller keeps the precondition
\* of pop_front and front (a non-empty list) as far as it can see it.
LF_call(t) ==
    /\ ~aborted
    /\ pc[t] = "idle"
    /\ prog[t] /= <<>>
    /\ t /= Main => (pc[Main] = "idle" /\ prog[Main] = <<>>)
    /\ LET c == Head(prog[t])
           go == c.kind \in {"pop_front", "front"} => HasLive
       IN  /\ pc' = [pc EXCEPT ![t] = IF go THEN FirstLabel(c.kind) ELSE "idle"]
           /\ arg' = [arg EXCEPT ![t] = IF go THEN c.v ELSE DefaultT]
           /\ prog' = [prog EXCEPT ![t] = Tail(@)]
    /\ UNCHANGED <<value_, next_, marked, alloc, ndebug, aborted, dtorUnmarked,
                   ub, p, pp, cur, ret, marks, unlinks, glvars, callervars>>

------------------------------------------------------------------------------
\* push_back, lines 193-194: assert; p = head_->next_, pp = &head_->next_.
LF_push_head(t) ==
    /\ ~aborted
    /\ pc[t] = "push_head"
    /\ LET first == next_[Sentinel]
       IN  LFRead(t, IF first = Nil THEN "push_cas" ELSE "push_walk",
                  first, Sentinel, Nil, HeadAssertFails)
    /\ UNCHANGED ret

\* push_back, line 195: pp = &p->next_, p = p->next_ while p.
LF_push_walk(t) ==
    /\ ~aborted
    /\ pc[t] = "push_walk"
    /\ LET nxt == next_[p[t]]
       IN  LFRead(t, IF nxt = Nil THEN "push_cas" ELSE "push_walk",
                  nxt, p[t], Nil, FALSE)
    /\ UNCHANGED ret

\* push_back, line 199: the link the CAS must find in *pp.
PushExpected(t) == p[t]

\* push_back, lines 197-200: n = new node(val); CAS *pp from p to n; when
\* the CAS fails, "goto retry" leaves the scope of n: its only reference is
\* dropped and the node, whose link is unmarked, is destroyed.
\* When the node pp points into was destroyed meanwhile (no reference of
\* this thread keeps it), the CAS reads and writes memory that was freed.
LF_push_cas(t) ==
    /\ ~aborted
    /\ pc[t] = "push_cas"
    /\ LET o == pp[t]
           n == NewNode
           linked == /\ LFCommit(t, "idle", Nil, Nil, Nil,
                                 [next_ EXCEPT ![o] = n, ![n] = Nil],
                                 [marked EXCEPT ![n] = FALSE],
                                 [value_ EXCEPT ![n] = arg[t]],
                                 [alloc EXCEPT ![n] = "live"],
                                 FALSE, FALSE, FALSE)
           failed(isUB) == LFCommit(t, "push_head", Nil, Nil, Nil,
                                    next_, marked, value_, alloc,
                                    TRUE, isUB, FALSE)
           \* The CAS finds (null, unmarked) in memory that is no longer the
           \* node's (freed, or allocated again, for n itself for one): it
           \* reports success, push_back returns, and the only reference to
           \* n lies outside the list.
           lost == LFCommit(t, "idle", Nil, Nil, Nil,
                            [next_ EXCEPT ![n] = Nil],
                            [marked EXCEPT ![n] = FALSE],
                            [value_ EXCEPT ![n] = arg[t]],
                            [alloc EXCEPT ![n] = "lost"],
                            FALSE, TRUE, FALSE)
       IN  IF alloc[o] = "dead"
           THEN \E out \in UBOutcomes :
                  CASE out = "fail"  -> failed(TRUE)
                    [] out = "write" -> lost
                    [] out = "crash" -> LFCommit(t, "idle", Nil, Nil, Nil,
                                            next_, marked, value_, alloc,
                                            FALSE, TRUE, TRUE)
           ELSE IF CasSucceeds(o, PushExpected(t)) THEN linked ELSE failed(FALSE)
    /\ UNCHANGED <<ret, marks, unlinks, glvars, callervars>>

------------------------------------------------------------------------------
\* pop_front, lines 172-175: assert; cur = head_->next_; assert(cur).
\* With no first node the assert fails, or the null cur is dereferenced.
LF_pop_head(t) ==
    /\ ~aborted
    /\ pc[t] = "pop_head"
    /\ LET first == next_[Sentinel]
       IN  LFRead(t, "pop_mark", Nil, Nil, first,
                  HeadAssertFails \/ first = Nil)
    /\ UNCHANGED ret

\* pop_front without "if (!cur->next_.mark()) goto retry": it goes on to
\* unlink cur whoever marked it.
LF_pop_mark_Unchecked(t) ==
    /\ ~aborted
    /\ pc[t] = "pop_mark"
    /\ LFCommit(t, "pop_load", Nil, Nil, cur[t], next_,
                [marked EXCEPT ![cur[t]] = TRUE], value_, alloc,
                FALSE, FALSE, FALSE)
    /\ marks' = IF MarkSucceeds(cur[t]) THEN Bump(marks, cur[t]) ELSE marks
    /\ UNCHANGED <<ret, unlinks, glvars, callervars>>

\* pop_front, lines 177-179: cur->next_.mark(); retry when it was marked.
LF_pop_mark(t) ==
    /\ ~aborted
    /\ pc[t] = "pop_mark"
    /\ IF MarkSucceeds(cur[t])
       THEN /\ LFCommit(t, "pop_load", Nil, Nil, cur[t], next_,
                        [marked EXCEPT ![cur[t]] = TRUE], value_, alloc,
                        FALSE, FALSE, FALSE)
            /\ marks' = Bump(marks, cur[t])
       ELSE /\ LFCommit(t, "pop_head", Nil, Nil, Nil, next_, marked, value_,
                        alloc, FALSE, FALSE, FALSE)
            /\ UNCHANGED marks
    /\ UNCHANGED <<ret, unlinks, glvars, callervars>>

\* pop_front, line 184, right-hand side: read cur->next_.
LF_pop_load(t) ==
    /\ ~aborted
    /\ pc[t] = "pop_load"
    /\ LFRead(t, "pop_store", next_[cur[t]], Nil, cur[t], FALSE)
    /\ UNCHANGED ret

\* pop_front writing "prev->next_ = cur": nothing is unlinked.
PopInstalled_Cur(t) == cur[t]

\* pop_front, line 184: the reference the plain assignment installs.
PopInstalled(t) == p[t]

\* pop_front with an assignment that copies the mark bit of cur->next_
\* along with the reference.
LF_pop_store_CopyMark(t) ==
    /\ ~aborted
    /\ pc[t] = "pop_store"
    /\ LFCommit(t, "idle", Nil, Nil, Nil,
                [next_ EXCEPT ![Sentinel] = PopInstalled(t)],
                [marked EXCEPT ![Sentinel] = marked[cur[t]]], value_, alloc,
                FALSE, FALSE, FALSE)
    /\ unlinks' = Bump(unlinks, cur[t])
    /\ UNCHANGED <<ret, marks, glvars, callervars>>

\* pop_front, lines 184-185: prev->next_ = ..., a plain assignment that
\* installs the reference with the mark unset; scoper.release(cur).
LF_pop_store(t) ==
    /\ ~aborted
    /\ pc[t] = "pop_store"
    /\ LFCommit(t, "idle", Nil, Nil, Nil,
                [next_ EXCEPT ![Sentinel] = PopInstalled(t)],
                [marked EXCEPT ![Sentinel] = FALSE], value_, alloc,
                FALSE, FALSE, FALSE)
    /\ unlinks' = Bump(unlinks, cur[t])
    /\ UNCHANGED <<ret, marks, glvars, callervars>>

------------------------------------------------------------------------------
\* front, lines 138-140: assert; p = head_->next_; assert(p).
LF_front_head(t) ==
    /\ ~aborted
    /\ pc[t] = "front_head"
    /\ LET first == next_[Sentinel]
       IN  LFRead(t, "front_chk1", first, Nil, Nil,
                  HeadAssertFails \/ first = Nil)
    /\ UNCHANGED ret

\* front, lines 141-142: retry when p is marked.
LF_front_chk1(t) ==
    /\ ~aborted
    /\ pc[t] = "front_chk1"
    /\ IF marked[p[t]]
       THEN LFRead(t, "front_head", Nil, Nil, Nil, FALSE)
       ELSE LFRead(t, "front_chk2", p[t], Nil, Nil, FALSE)
    /\ UNCHANGED ret

\* front, lines 143-147: ref = p->value_; retry when p is marked by now.
LF_front_chk2(t) ==
    /\ ~aborted
    /\ pc[t] = "front_chk2"
    /\ IF marked[p[t]]
       THEN /\ LFRead(t, "front_head", Nil, Nil, Nil, FALSE)
            /\ UNCHANGED ret
       ELSE /\ LFRead(t, "idle", Nil, Nil, Nil, FALSE)
            /\ ret' = [ret EXCEPT ![t] = value_[p[t]]]

------------------------------------------------------------------------------
\* remove, line 207: p = head_->next_, pp = &head_->next_.
LF_rem_head(t) ==
    /\ ~aborted
    /\ pc[t] = "rem_head"
    /\ LET first == next_[Sentinel]
       IN  LFRead(t, IF first = Nil THEN "idle" ELSE "rem_loop",
                  first, Sentinel, Nil, FALSE)
    /\ UNCHANGED ret

\* A remove whose comparison never holds: nothing is deleted.
RemMatches_None(t) == FALSE

\* remove, line 209: the nodes remove deletes.
RemMatches(t) == value_[p[t]] = arg[t]

\* remove trying to unlink a matching node whether or not its own mark()
\* set the mark.
LF_rem_loop_Unchecked(t) ==
    /\ ~aborted
    /\ pc[t] = "rem_loop"
    /\ IF ~RemMatches(t)
       THEN /\ LET nxt == next_[p[t]]
               IN  LFRead(t, IF nxt = Nil THEN "idle" ELSE "rem_loop",
                          nxt, p[t], Nil, FALSE)
       ELSE /\ LFCommit(t, "rem_cas", p[t], pp[t], Nil, next_,
                        [marked EXCEPT ![p[t]] = TRUE], value_, alloc,
                        FALSE, FALSE, FALSE)
            /\ marks' = IF MarkSucceeds(p[t]) THEN Bump(marks, p[t]) ELSE marks
            /\ UNCHANGED <<unlinks, glvars, callervars>>
    /\ UNCHANGED ret

\* remove, lines 208-211 and 221-223: a node with another value becomes the
\* predecessor; a node with the value is marked.
LF_rem_loop(t) ==
    /\ ~aborted
    /\ pc[t] = "rem_loop"
    /\ IF ~RemMatches(t)
       THEN /\ LET nxt == next_[p[t]]
               IN  LFRead(t, IF nxt = Nil THEN "idle" ELSE "rem_loop",
                          nxt, p[t], Nil, FALSE)
            /\ UNCHANGED marks
       ELSE IF MarkSucceeds(p[t])
       THEN /\ LFCommit(t, "rem_cas", p[t], pp[t], Nil, next_,
                        [marked EXCEPT ![p[t]] = TRUE], value_, alloc,
                        FALSE, FALSE, FALSE)
            /\ marks' = Bump(marks, p[t])
            /\ UNCHANGED <<unlinks, glvars, callervars>>
       ELSE /\ LFRead(t, "rem_adv", p[t], pp[t], Nil, FALSE)
            /\ UNCHANGED marks
    /\ UNCHANGED ret

\* remove unlinking with a plain assignment, *pp = p->next_, as the locked
\* list does: the link is overwritten whatever it holds.
LF_rem_cas_Assign(t) ==
    /\ ~aborted
    /\ pc[t] = "rem_cas"
    /\ LET o == pp[t]
       IN  /\ LFCommit(t, "rem_adv", p[t], o, Nil,
                       [next_ EXCEPT ![o] = next_[p[t]]],
                       [marked EXCEPT ![o] = FALSE], value_,
                       alloc, FALSE, alloc[o] = "dead", FALSE)
           /\ unlinks' = Bump(unlinks, p[t])
    /\ UNCHANGED <<ret, marks, glvars, callervars>>

\* remove, lines 213-216: CAS *pp from p to p->next_; on success
\* scoper.release(p).  The outcome is ignored.
LF_rem_cas(t) ==
    /\ ~aborted
    /\ pc[t] = "rem_cas"
    /\ LET o == pp[t]
           stay(isUB, crash) ==
               /\ LFCommit(t, "rem_adv", p[t], o, Nil, next_, marked, value_,
                           alloc, FALSE, isUB, crash)
               /\ UNCHANGED unlinks
       IN  IF alloc[o] = "dead"
           THEN \E out \in UBOutcomes :
                  CASE out = "fail"  -> stay(TRUE, FALSE)
                    [] out = "write" -> stay(TRUE, FALSE)
                    [] out = "crash" -> stay(TRUE, TRUE)
           ELSE IF CasSucceeds(o, p[t])
           THEN /\ LFCommit(t, "rem_adv", p[t], o, Nil,
                            [next_ EXCEPT ![o] = next_[p[t]]], marked, value_,
                            alloc, FALSE, FALSE, FALSE)
                /\ unlinks' = Bump(unlinks, p[t])
           ELSE stay(FALSE, FALSE)
    /\ UNCHANGED <<ret, marks, glvars, callervars>>

\* remove, line 220: p = p->next_, pp stays.
LF_rem_adv(t) ==
    /\ ~aborted
    /\ pc[t] = "rem_adv"
    /\ LET nxt == next_[p[t]]
       IN  LFRead(t, IF nxt = Nil THEN "idle" ELSE "rem_loop",
                  nxt, pp[t], Nil, FALSE)
    /\ UNCHANGED ret


(***************************************************************************)
(* global_lock_impl: every call runs under mutex_ from its first statement *)
(* to its last, so a call is a function from the list to the list and the  *)
(* result.  A list is [head, tail, next, value]; ok tells that no assert   *)
(* of the call failed.                                                     *)
(***************************************************************************)
MaxGLNodes == MaxOps + MaxLen + MaxSeqLen
GLNodes == 1 .. MaxGLNodes

GL_list == [head |-> head_, tail |-> tail_, next |-> gl_next, value |-> gl_value]

\* global_lock_impl(): head_(), tail_().
GL_empty ==
    [head |-> Nil, tail |-> Nil,
     next |-> [n \in GLNodes |-> Nil], value |-> [n \in GLNodes |-> DefaultT]]

RECURSIVE GL_chain(_, _, _)
GL_chain(l, n, fuel) ==
    IF n = Nil \/ fuel = 0 THEN <<>> ELSE <<n>> \o GL_chain(l, l.next[n], fuel - 1)

SeqRange(s) == {s[i] : i \in 1 .. Len(s)}

\* std::shared_ptr<node>: the nodes some reference still leads to.
GL_used(l) ==
    SeqRange(GL_chain(l, l.head, MaxGLNodes)) \cup SeqRange(GL_chain(l, l.tail, MaxGLNodes))

\* std::shared_ptr<node>: a node without a reference is destroyed.
GL_release(l) ==
    LET u == GL_used(l)
    IN  [l EXCEPT !.next = [n \in GLNodes |-> IF n \in u THEN l.next[n] ELSE Nil],
                  !.value = [n \in GLNodes |-> IF n \in u THEN l.value[n] ELSE DefaultT]]

\* std::make_shared<node>: a node no reference leads to.
GL_new(l) == CHOOSE n \in GLNodes : n \notin GL_used(l) /\ \A m \in GLNodes \ GL_used(l) : n <= m

NoRet == [found |-> FALSE, value |-> DefaultT]
GL_result(l, found, v, ok) ==
    [l |-> GL_release(l), ret |-> [found |-> found, value |-> v], ok |-> ok]

\* size(), lines 100-111.
RECURSIVE GL_size_loop(_, _, _, _)
GL_size_loop(l, c, r, fuel) ==
    IF c = Nil \/ fuel = 0 THEN r ELSE GL_size_loop(l, l.next[c], r + 1, fuel - 1)

GL_size(l) == GL_result(l, TRUE, GL_size_loop(l, l.head, 0, MaxGLNodes), TRUE)

\* front(), lines 113-119.
GL_front(l) ==
    IF l.head = Nil THEN GL_result(l, FALSE, DefaultT, FALSE)
    ELSE GL_result(l, TRUE, l.value[l.head], TRUE)

\* back(), lines 127-134.
GL_back(l) ==
    IF l.tail = Nil THEN GL_result(l, FALSE, DefaultT, FALSE)
    ELSE GL_result(l, TRUE, l.value[l.tail], l.next[l.tail] = Nil)

\* pop_front(), lines 142-151.
GL_pop_front(l) ==
    IF l.head = Nil THEN GL_result(l, FALSE, DefaultT, FALSE)
    ELSE LET nxt == l.next[l.head]
         IN  GL_result([l EXCEPT !.head = nxt,
                                 !.tail = IF nxt = Nil THEN Nil ELSE l.tail],
                       FALSE, DefaultT, TRUE)

\* push_back() without "tail_ = n" on a non-empty list.
GL_push_back_StaleTail(l, v) ==
    LET n  == GL_new(l)
        l1 == [l EXCEPT !.value[n] = v, !.next[n] = Nil]
    IN  IF l.tail = Nil
        THEN GL_result([l1 EXCEPT !.head = n, !.tail = n],
                       FALSE, DefaultT, l.head = Nil)
        ELSE GL_result([l1 EXCEPT !.next[l.tail] = n], FALSE, DefaultT, TRUE)

\* push_back() linking the new node before head_.
GL_push_back_Front(l, v) ==
    LET n  == GL_new(l)
        l1 == [l EXCEPT !.value[n] = v, !.next[n] = l.head]
    IN  GL_result([l1 EXCEPT !.head = n,
                             !.tail = IF l.tail = Nil THEN n ELSE l.tail],
                  FALSE, DefaultT, TRUE)

\* push_back(), lines 153-165.
GL_push_back(l, v) ==
    LET n  == GL_new(l)
        l1 == [l EXCEPT !.value[n] = v, !.next[n] = Nil]
    IN  IF l.tail = Nil
        THEN GL_result([l1 EXCEPT !.head = n, !.tail = n],
                       FALSE, DefaultT, l.head = Nil)
        ELSE GL_result([l1 EXCEPT !.next[l.tail] = n, !.tail = n],
                       FALSE, DefaultT, TRUE)

\* remove(), lines 173-186.  pp is Nil for &head_, else the node whose next_
\* it addresses.
RECURSIVE GL_remove_loop(_, _, _, _, _, _)
GL_remove_loop(l, v, pv, q, qq, fuel) ==
    IF q = Nil \/ fuel = 0 THEN l
    ELSE IF l.value[q] = v
    THEN LET nxt == l.next[q]
             l1  == IF qq = Nil THEN [l EXCEPT !.head = nxt]
                                ELSE [l EXCEPT !.next[qq] = nxt]
             l2  == IF nxt = Nil THEN [l1 EXCEPT !.tail = pv] ELSE l1
         IN  GL_remove_loop(l2, v, pv, nxt, qq, fuel - 1)
    ELSE GL_remove_loop(l, v, q, l.next[q], q, fuel - 1)

\* remove() without "if (!*pp) tail_ = prev": tail_ stays where it was.
GL_remove_KeepTail(l, v) ==
    GL_result([GL_remove_loop(l, v, Nil, l.head, Nil, MaxGLNodes) EXCEPT !.tail = l.tail],
              FALSE, DefaultT, TRUE)

\* remove(), lines 167-187.
GL_remove(l, v) ==
    GL_result(GL_remove_loop(l, v, Nil, l.head, Nil, MaxGLNodes),
              FALSE, DefaultT, TRUE)

\* try_pop_front() without "if (!head_) tail_.reset()".
GL_try_pop_front_KeepTail(l) ==
    IF l.head = Nil THEN GL_result(l, FALSE, DefaultT, l.tail = Nil)
    ELSE LET t   == l.value[l.head]
             nxt == l.next[l.head]
         IN  GL_result([l EXCEPT !.head = nxt], TRUE, t, TRUE)

\* try_pop_front(), lines 189-203.
GL_try_pop_front(l) ==
    IF l.head = Nil THEN GL_result(l, FALSE, DefaultT, l.tail = Nil)
    ELSE LET t   == l.value[l.head]
             nxt == l.next[l.head]
         IN  GL_result([l EXCEPT !.head = nxt,
                                 !.tail = IF nxt = Nil THEN Nil ELSE l.tail],
                       TRUE, t, TRUE)

\* for (it = begin(); it != end(); ++it) *it, lines 51-80 and 205-215.
GL_iterate(l) ==
    LET ns == GL_chain(l, l.head, MaxGLNodes)
    IN  [i \in 1 .. Len(ns) |-> l.value[ns[i]]]


(***************************************************************************)
(* Initial states: both lists as their constructors leave them.            *)
(***************************************************************************)
Call(kind, v) == [kind |-> kind, v |-> v]

\* lock_free_impl(): head_(new node); node(): value_(), next_().
InitLF(progs) ==
    /\ value_ = [n \in Nodes |-> DefaultT]
    /\ next_ = [n \in Nodes |-> Nil]
    /\ marked = [n \in Nodes |-> FALSE]
    /\ alloc = [n \in Nodes |-> IF n = Sentinel THEN "live" ELSE "free"]
    /\ ndebug \in BOOLEAN
    /\ aborted = FALSE
    /\ dtorUnmarked = FALSE
    /\ ub = FALSE
    /\ pc = [t \in Threads |-> "idle"]
    /\ arg = [t \in Threads |-> DefaultT]
    /\ p = [t \in Threads |-> Nil]
    /\ pp = [t \in Threads |-> Nil]
    /\ cur = [t \in Threads |-> Nil]
    /\ ret = [t \in Threads |-> DefaultT]
    /\ prog \in progs
    /\ plan = prog
    /\ marks = [n \in Nodes |-> 0]
    /\ unlinks = [n \in Nodes |-> 0]

\* global_lock_impl(): mutex_(), head_(), tail_().
InitGL ==
    /\ head_ = GL_empty.head
    /\ tail_ = GL_empty.tail
    /\ gl_next = GL_empty.next
    /\ gl_value = GL_empty.value
    /\ mutex_ = Unlocked
    /\ iters = <<>>
    /\ waiting = {}
    /\ gl_ret = [kind |-> "none", found |-> FALSE, value |-> DefaultT, ok |-> TRUE]

InitCaller ==
    /\ log = <<>>
    /\ snapLF = <<>>
    /\ snapGL = <<>>
    /\ rtS = <<>>
    /\ rtOut = <<>>
    /\ rtPhase = "off"

NoProgs == {[t \in Threads |-> <<>>]}

\* A call of global_lock_impl takes effect: the list and the result.
GLApply(r, kind) ==
    /\ head_' = r.l.head
    /\ tail_' = r.l.tail
    /\ gl_next' = r.l.next
    /\ gl_value' = r.l.value
    /\ gl_ret' = [kind |-> kind, found |-> r.ret.found, value |-> r.ret.value,
                  ok |-> r.ok]

GLRun(c) ==
    CASE c.kind = "push_back"     -> GL_push_back(GL_list, c.v)
      [] c.kind = "pop_front"     -> GL_pop_front(GL_list)
      [] c.kind = "remove"        -> GL_remove(GL_list, c.v)
      [] c.kind = "front"         -> GL_front(GL_list)
      [] c.kind = "back"          -> GL_back(GL_list)
      [] c.kind = "size"          -> GL_size(GL_list)
      [] c.kind = "try_pop_front" -> GL_try_pop_front(GL_list)

(***************************************************************************)
(* SpecSeq: one thread makes the same calls on a LockedList and on a       *)
(* LockFreeList, one call after the other.                                 *)
(***************************************************************************)
SeqCalls ==
    {Call("push_back", v) : v \in Values} \cup {Call("remove", v) : v \in Values}
        \cup {Call("pop_front", DefaultT), Call("front", DefaultT)}

Seq_call(c) ==
    /\ ~aborted
    /\ pc[Main] = "idle"
    /\ Len(log) < MaxOps
    /\ c.kind \in {"pop_front", "front"} => (head_ /= Nil /\ HasLive)
    /\ log' = Append(log, c)
    /\ snapLF' = LF_iterate
    /\ snapGL' = GL_iterate(GL_list)
    /\ GLApply(GLRun(c), c.kind)
    /\ pc' = [pc EXCEPT ![Main] = FirstLabel(c.kind)]
    /\ arg' = [arg EXCEPT ![Main] = c.v]
    /\ UNCHANGED <<value_, next_, marked, alloc, ndebug, aborted, dtorUnmarked,
                   ub, p, pp, cur, ret, prog, marks, unlinks,
                   mutex_, iters, waiting, plan, rtS, rtOut, rtPhase>>

LFStep(t) ==
    \/ LF_push_head(t) \/ LF_push_walk(t) \/ LF_push_cas(t)
    \/ LF_pop_head(t) \/ LF_pop_mark(t) \/ LF_pop_load(t) \/ LF_pop_store(t)
    \/ LF_front_head(t) \/ LF_front_chk1(t) \/ LF_front_chk2(t)
    \/ LF_rem_head(t) \/ LF_rem_loop(t) \/ LF_rem_cas(t) \/ LF_rem_adv(t)

InitSeq == InitLF(NoProgs) /\ InitGL /\ InitCaller
NextSeq == (\E c \in SeqCalls : Seq_call(c)) \/ LFStep(Main)
SpecSeq == InitSeq /\ [][NextSeq]_vars

SeqIdle == pc[Main] = "idle" /\ ~aborted


(***************************************************************************)
(* SpecLF: the main thread builds a LockFreeList with push_back, then the  *)
(* worker threads run their calls concurrently, any interleaving of their  *)
(* steps.                                                                  *)
(***************************************************************************)
Pushes(s) == [i \in 1 .. Len(s) |-> Call("push_back", s[i])]
Pop == Call("pop_front", DefaultT)
Front == Call("front", DefaultT)
Remove(v) == Call("remove", v)

LFSetups == {<<>>, <<1, 2>>, <<1, 2, 3>>, <<1, 2, 3, 2, 4>>}

WorkerProgs ==
    {<<Pop>>, <<Remove(2)>>, <<Remove(1)>>, <<Call("push_back", 5)>>,
     <<Pop, Pop>>, <<Pop, Front>>, <<Pop, Call("push_back", 5)>>}

Plans(setups, progs) ==
    {[t \in Threads |-> IF t = Main THEN Pushes(s) ELSE w[t]] :
        s \in setups, w \in [Workers -> progs]}

InitLFree == InitLF(Plans(LFSetups, WorkerProgs)) /\ InitGL /\ InitCaller
NextLF == \E t \in Threads : LF_call(t) \/ LFStep(t)
SpecLF == InitLFree /\ [][NextLF]_vars

\* Every thread has made all its calls and returned from them.
AllDone == \A t \in Threads : pc[t] = "idle" /\ prog[t] = <<>>

(***************************************************************************)
(* SpecPush: NWorkers threads, each calling push_back NPushes times with   *)
(* values of its own, on a new LockFreeList.                               *)
(***************************************************************************)
PushValue(t, k) == (t - 1) * NPushes + k
PushPlan ==
    [t \in Threads |->
        IF t = Main THEN <<>>
        ELSE [k \in 1 .. NPushes |-> Call("push_back", PushValue(t, k))]]

InitPush == InitLF({PushPlan}) /\ InitGL /\ InitCaller
NextPush ==
    \E t \in Workers :
        LF_call(t) \/ LF_push_head(t) \/ LF_push_walk(t) \/ LF_push_cas(t)
SpecPush == InitPush /\ [][NextPush]_vars

(***************************************************************************)
(* SpecLFFair: SpecLF on a three-element list with one popping and one     *)
(* removing thread, every thread scheduled fairly: a thread that can take  *)
(* a step eventually takes one.                                            *)
(***************************************************************************)
FairProgs == {<<Pop, Pop>>, <<Pop, Front>>, <<Remove(2)>>}
InitLFFair == InitLF(Plans({<<1, 2, 3>>}, FairProgs)) /\ InitGL /\ InitCaller
SpecLFFair ==
    InitLFFair /\ [][NextLF]_vars
        /\ \A t \in Threads : WF_vars(LF_call(t) \/ LFStep(t))

Last(s) == s[Len(s)]
Kinds(s) == [i \in 1 .. Len(s) |-> s[i].kind]
PushedValues == [i \in 1 .. Len(log) |-> log[i].v]
OnlyPushes == \A i \in 1 .. Len(log) : log[i].kind = "push_back"

\* C1: for both lists, after n push_back calls on a new list (and no other
\* call), size() returns n and iteration from begin() to end() yields the
\* pushed values in push order.
C1_PushOrder ==
    (SeqIdle /\ OnlyPushes) =>
        /\ LF_size = Len(log)
        /\ LF_iterate = PushedValues
        /\ GL_size(GL_list).ret.value = Len(log)
        /\ GL_iterate(GL_list) = PushedValues

C1_Witness ==
    /\ SeqIdle /\ OnlyPushes /\ Len(log) >= 3
    /\ log[1].v /= log[2].v
    /\ LF_size = Len(log)

\* C2: for both lists, pop_front on a non-empty list removes exactly the
\* first element and leaves the others in their order; front() returns the
\* first element; push_back(a); push_back(b); pop_front() leaves [b] and
\* front() then returns b.
C2_PopFront ==
    (SeqIdle /\ log /= <<>>) =>
        /\ Last(log).kind = "pop_front" =>
              /\ LF_iterate = Tail(snapLF)
              /\ GL_iterate(GL_list) = Tail(snapGL)
              /\ gl_ret.ok
        /\ Last(log).kind = "front" =>
              /\ ret[Main] = Head(snapLF)
              /\ gl_ret.value = Head(snapGL)
              /\ gl_ret.ok
        /\ Kinds(log) = <<"push_back", "push_back", "pop_front">> =>
              /\ LF_iterate = <<log[2].v>>
              /\ GL_iterate(GL_list) = <<log[2].v>>
        /\ Kinds(log) = <<"push_back", "push_back", "pop_front", "front">> =>
              /\ ret[Main] = log[2].v
              /\ gl_ret.value = log[2].v

C2_Witness ==
    /\ SeqIdle
    /\ Kinds(log) = <<"push_back", "push_back", "pop_front", "front">>
    /\ log[1].v /= log[2].v
    /\ ret[Main] = log[2].v


(***************************************************************************)
(* SpecLocked: threads calling a LockedList.  A call runs under mutex_     *)
(* from start to end, so it takes effect in one step, when the thread gets *)
(* the mutex; begin() keeps the mutex locked in the iterator it returns.   *)
(***************************************************************************)
GLCalls ==
    {Call("push_back", v) : v \in Values} \cup {Call("remove", v) : v \in Values}
        \cup {Call(k, DefaultT) :
                 k \in {"pop_front", "front", "back", "size", "try_pop_front", "begin"}}

GLLen == Len(GL_chain(GL_list, head_, MaxGLNodes))

\* unique_lock l(mutex_) / make_shared<unique_lock>(mutex_) returns only
\* when the mutex is unlocked.
CanLock == mutex_ = Unlocked

\* The caller keeps the bound of the model and the preconditions.
GLAllowed(c) ==
    /\ c.kind = "push_back" => GLLen < MaxLen
    /\ c.kind \in {"pop_front", "front", "back"} => head_ /= Nil

\* begin(), lines 205-209: lock the mutex, iterator at head_.
GL_begin(t) ==
    /\ mutex_' = t
    /\ iters' = <<head_>>
    /\ gl_ret' = [kind |-> "begin", found |-> head_ /= Nil,
                  value |-> IF head_ = Nil THEN DefaultT ELSE gl_value[head_],
                  ok |-> TRUE]
    /\ UNCHANGED <<head_, tail_, gl_next, gl_value>>

\* The call c of thread t takes effect.
GLExec(t, c) ==
    /\ snapGL' = GL_iterate(GL_list)
    /\ IF c.kind = "begin" THEN GL_begin(t)
       ELSE GLApply(GLRun(c), c.kind) /\ UNCHANGED <<mutex_, iters>>

\* Thread t makes a call: it runs at once, or blocks on the locked mutex.
GL_call(t, c) ==
    /\ t \notin waiting
    /\ IF CanLock
       THEN GLAllowed(c) /\ GLExec(t, c) /\ UNCHANGED waiting
       ELSE /\ waiting' = waiting \cup {t}
            /\ UNCHANGED <<head_, tail_, gl_next, gl_value, mutex_, iters,
                           gl_ret, snapGL>>
    /\ UNCHANGED <<lfvars, plan, log, snapLF, rtS, rtOut, rtPhase>>

\* A blocked thread gets the mutex and its call runs.
GL_wake(t, c) ==
    /\ t \in waiting
    /\ CanLock
    /\ GLAllowed(c)
    /\ GLExec(t, c)
    /\ waiting' = waiting \ {t}
    /\ UNCHANGED <<lfvars, plan, log, snapLF, rtS, rtOut, rtPhase>>

\* end(), lines 211-215: an iterator with no lock and no node.
GL_end(t) ==
    /\ t \notin waiting
    /\ gl_ret' = [kind |-> "end", found |-> FALSE, value |-> DefaultT, ok |-> TRUE]
    /\ UNCHANGED <<head_, tail_, gl_next, gl_value, mutex_, iters, waiting>>
    /\ UNCHANGED <<lfvars, callervars>>

\* The copies of an iterator are told apart by their node_ only: they are
\* kept in the order of their nodes.
Copies(sq) == SortSeq(sq, LAMBDA a, b : a < b)

\* The thread holding the iterator is running.
IterOwnerRuns == mutex_ /= Unlocked /\ mutex_ \notin waiting

\* iterator_(const iterator_ &): a copy shares lock_ (a shared_ptr).
GL_iter_copy(i) ==
    /\ IterOwnerRuns
    /\ Len(iters) < MaxCopies
    /\ iters' = Copies(Append(iters, iters[i]))
    /\ UNCHANGED <<head_, tail_, gl_next, gl_value, mutex_, waiting, gl_ret>>
    /\ UNCHANGED <<lfvars, callervars>>

\* iterator_::operator++, lines 75-80.
GL_iter_incr(i) ==
    /\ IterOwnerRuns
    /\ iters[i] /= Nil
    /\ iters' = Copies([iters EXCEPT ![i] = gl_next[iters[i]]])
    /\ UNCHANGED <<head_, tail_, gl_next, gl_value, mutex_, waiting, gl_ret>>
    /\ UNCHANGED <<lfvars, callervars>>

DropAt(sq, i) == [j \in 1 .. Len(sq) - 1 |-> IF j < i THEN sq[j] ELSE sq[j + 1]]

\* A lock owned by one copy only: any copy's destructor unlocks.
MutexAfterDrop_Any(left) == Unlocked

\* unique_lock_ptr lock_: the mutex is unlocked when the last copy goes.
MutexAfterDrop(left) == IF left = <<>> THEN Unlocked ELSE mutex_

\* ~iterator_(): one copy is destroyed.
GL_iter_drop(i) ==
    /\ IterOwnerRuns
    /\ iters' = DropAt(iters, i)
    /\ mutex_' = MutexAfterDrop(DropAt(iters, i))
    /\ UNCHANGED <<head_, tail_, gl_next, gl_value, waiting, gl_ret>>
    /\ UNCHANGED <<lfvars, callervars>>

\* No LockFreeList call is made, and the callers keep the preconditions the
\* LockedList asserts: the build with assertions stands for both.
InitLocked == InitLF(NoProgs) /\ InitGL /\ InitCaller /\ ~ndebug
NextLocked ==
    \/ \E t \in Workers : \E c \in GLCalls : GL_call(t, c)
    \/ \E t \in Workers : \E c \in GLCalls : GL_wake(t, c)
    \/ \E t \in Workers : GL_end(t)
    \/ \E i \in 1 .. Len(iters) : GL_iter_copy(i)
    \/ \E i \in 1 .. Len(iters) : GL_iter_incr(i)
    \/ \E i \in 1 .. Len(iters) : GL_iter_drop(i)
SpecLocked == InitLocked /\ [][NextLocked]_vars

(***************************************************************************)
(* SpecRoundTrip: a sequence S is pushed onto a new LockedList, element by *)
(* element, and the list is drained with try_pop_front until found=false.  *)
(***************************************************************************)
RECURSIVE SeqsUpTo(_)
SeqsUpTo(n) ==
    IF n = 0 THEN {<<>>}
    ELSE SeqsUpTo(n - 1) \cup {Append(sq, v) : sq \in {x \in SeqsUpTo(n - 1) : Len(x) = n - 1}, v \in Values}

InitRoundTrip ==
    /\ InitLF(NoProgs) /\ InitGL /\ ~ndebug
    /\ log = <<>>
    /\ snapLF = <<>>
    /\ snapGL = <<>>
    /\ rtS \in SeqsUpTo(MaxSeqLen)
    /\ rtOut = <<>>
    /\ rtPhase = "push"

RT_push ==
    /\ rtPhase = "push"
    /\ Len(log) < Len(rtS)
    /\ LET c == Call("push_back", rtS[Len(log) + 1])
       IN  /\ GLApply(GLRun(c), c.kind)
           /\ log' = Append(log, c)
    /\ UNCHANGED <<lfvars, mutex_, iters, waiting, plan, snapLF, snapGL, rtS,
                   rtOut, rtPhase>>

RT_drain ==
    /\ rtPhase /= "done"
    /\ Len(log) >= Len(rtS)
    /\ LET c == Call("try_pop_front", DefaultT)
           r == GLRun(c)
       IN  /\ GLApply(r, c.kind)
           /\ log' = Append(log, c)
           /\ rtOut' = IF r.ret.found THEN Append(rtOut, r.ret.value) ELSE rtOut
           /\ rtPhase' = IF r.ret.found THEN "drain" ELSE "done"
    /\ UNCHANGED <<lfvars, mutex_, iters, waiting, plan, snapLF, snapGL, rtS>>

NextRoundTrip == RT_push \/ RT_drain
SpecRoundTrip == InitRoundTrip /\ [][NextRoundTrip]_vars

(***************************************************************************)
(* LockFreeList under concurrency.                                         *)
(***************************************************************************)
Iterated == LF_iterate
PlanOf(t) == plan[t]
RemovedBy(t) == {PlanOf(t)[i].v : i \in {j \in 1 .. Len(PlanOf(t)) : PlanOf(t)[j].kind = "remove"}}
\* All calls have returned, the process lives, and no thread went through a
\* dangling pointer on the way.
Quiescent == AllDone /\ ~aborted /\ ~ub

RECURSIVE IsSubseq(_, _)
IsSubseq(a, b) ==
    IF a = <<>> THEN TRUE
    ELSE IF b = <<>> THEN FALSE
    ELSE IF Head(a) = Head(b) THEN IsSubseq(Tail(a), Tail(b))
    ELSE IsSubseq(a, Tail(b))

Without(sq, v) == SelectSeq(sq, LAMBDA x : x /= v)

\* The list [a, x, b, x, c] of the claim, and a thread removing x from it.
AXBXC == <<1, 2, 3, 2, 4>>
RemovesX == plan[Main] = Pushes(AXBXC) /\ \E t \in Workers : plan[t] = <<Remove(2)>>

\* C3: remove(x) on [a, x, b, x, c], whatever the other threads do at the
\* same time: once all calls have returned, iteration yields no x, and the
\* elements of [a, b, c] it yields are in their order (here no thread
\* pushes a, b, c or x).
C3_RemoveAll ==
    (Quiescent /\ RemovesX) =>
        /\ \A i \in 1 .. Len(Iterated) : Iterated[i] /= 2
        /\ IsSubseq(Without(Iterated, 5), Without(AXBXC, 2))

\* C4: N threads each calling push_back M times: no call dies, and when
\* all have returned the traversal from the sentinel finds N*M nodes, one
\* for each pushed value.
C4_AllLinked ==
    /\ ~aborted
    /\ AllDone =>
          /\ Len(Reachable) = NWorkers * NPushes
          /\ \A t \in Workers : \A k \in 1 .. NPushes :
                Cardinality({i \in 1 .. Len(Reachable) :
                                value_[Reachable[i]] = PushValue(t, k)}) = 1

\* C4 as far as it holds: in a build without assertions (NDEBUG) no push
\* is lost or doubled.
C4_AllLinkedRelease == ndebug => C4_AllLinked

\* One thread pops while another removes v, and nothing else runs.
PopVsRemove(v) ==
    /\ \E t \in Workers : plan[t] = <<Pop>>
    /\ \E t \in Workers : plan[t] = <<Remove(v)>>
    /\ \A t \in Workers : plan[t] \in {<<Pop>>, <<Remove(v)>>}

\* C5: pop_front concurrent with remove(v): no node is marked by both, and
\* after both have returned no element equal to v is reached by
\* begin()/++ or counted by size().
C5_PopVsRemove ==
    \A v \in {1, 2} :
        PopVsRemove(v) =>
            /\ \A n \in Nodes : marks[n] <= 1
            /\ Quiescent =>
                  /\ \A i \in 1 .. Len(Iterated) : Iterated[i] /= v
                  /\ LF_size = Len(Iterated)

\* C6: whenever a node is destroyed, its outgoing link is marked already.
C6_MarkedWhenDestroyed == ~dtorUnmarked

\* C7: lock-freedom.  The threads make finitely many calls, so if some
\* pending call always completes eventually, every fair run reaches the
\* state where all calls have returned (unless the process dies).
C7_LockFree == <>(AllDone \/ aborted)


(***************************************************************************)
(* LockedList.                                                             *)
(***************************************************************************)
\* C8: try_pop_front on an empty list returns (false, T()) and leaves head_
\* and tail_ empty; on a non-empty list it returns (true, first value) and
\* removes exactly the first element; on a one-element list it leaves the
\* list empty with tail_ cleared.
C8_TryPopFront ==
    gl_ret.kind = "try_pop_front" =>
        IF snapGL = <<>>
        THEN /\ ~gl_ret.found /\ gl_ret.value = DefaultT /\ gl_ret.ok
             /\ head_ = Nil /\ tail_ = Nil
        ELSE /\ gl_ret.found /\ gl_ret.value = Head(snapGL) /\ gl_ret.ok
             /\ GL_iterate(GL_list) = Tail(snapGL)
             /\ Len(snapGL) = 1 => (head_ = Nil /\ tail_ = Nil)

C8_Witness ==
    /\ gl_ret.kind = "try_pop_front" /\ gl_ret.found
    /\ Len(snapGL) = 1 /\ gl_ret.value = snapGL[1]
    /\ head_ = Nil /\ tail_ = Nil

\* C9: pushing the elements of S with push_back and then calling
\* try_pop_front until it returns found=false yields exactly the elements of
\* S in their order, with |S| found=true results (one per drained value).
C9_RoundTrip ==
    rtPhase = "done" =>
        /\ rtOut = rtS
        /\ Len(log) = 2 * Len(rtS) + 1
        /\ head_ = Nil

C9_Witness ==
    /\ rtPhase = "done" /\ Len(rtS) >= 3 /\ rtS[1] /= rtS[2]
    /\ rtOut = rtS

IterLive == iters /= <<>>

\* C10: while a copy of the iterator begin() returned lives, mutex_ is
\* locked and no call other than end() takes effect: the list does not
\* change, blocked threads stay blocked, no result is returned; the mutex
\* is unlocked only when the last copy goes.  end() leaves the mutex alone.
C10_IteratorHoldsLock ==
    [][/\ IterLive <=> mutex_ /= Unlocked
       /\ IterLive =>
             /\ <<head_, tail_, gl_next, gl_value>>' = <<head_, tail_, gl_next, gl_value>>
             /\ waiting \subseteq waiting'
             /\ gl_ret' /= gl_ret => gl_ret'.kind = "end"
             /\ iters' /= <<>> => mutex_' = mutex_
       /\ (gl_ret' /= gl_ret /\ gl_ret'.kind = "end") =>
             (mutex_' = mutex_ /\ iters' = iters)]_vars

C10_Witness ==
    /\ IterLive /\ Len(iters) >= 2
    /\ waiting /= {}
    /\ gl_ret.kind = "end"

(***************************************************************************)
(* LockFreeList: traversals of a list that holds marked nodes.             *)
(***************************************************************************)
\* The reachable nodes whose outgoing link is unmarked.
LiveReachable == {i \in 1 .. Len(Reachable) : ~marked[Reachable[i]]}
MarkedReachable == \E i \in 1 .. Len(Reachable) : marked[Reachable[i]]

\* C11: size(), run while no call is in progress, returns the number of
\* nodes reachable from the sentinel whose link is unmarked: a reachable
\* marked node is not counted.
C11_SizeSkipsMarked == Quiescent => LF_size = Cardinality(LiveReachable)

\* C17: every node an iterator stands on, from begin() or after ++, is
\* unmarked when the iterator moves to it (here: iterating while no call is
\* in progress); reachable marked nodes are skipped.
C17_IterSkipsMarked ==
    Quiescent =>
        LET ns == LF_iter_nodes(LF_begin, MaxNodes)
        IN  \A i \in 1 .. Len(ns) : ~marked[ns[i]]

(***************************************************************************)
(* Both lists, one thread.                                                 *)
(***************************************************************************)
\* C12: one thread applying the same push_back, pop_front (on non-empty)
\* and remove calls to both lists: after every call the two lists have the
\* same size(), the same front() and the same iteration sequence.
C12_SameBehaviour ==
    SeqIdle =>
        /\ LF_size = GL_size(GL_list).ret.value
        /\ LF_iterate = GL_iterate(GL_list)
        /\ HasLive <=> head_ /= Nil
        /\ HasLive => value_[next_[Sentinel]] = GL_front(GL_list).ret.value
        /\ (log /= <<>> /\ Last(log).kind = "front") => ret[Main] = gl_ret.value

C12_Witness ==
    /\ SeqIdle
    /\ Kinds(log) = <<"push_back", "push_back", "remove", "front">>
    /\ log[1].v /= log[2].v /\ log[3].v = log[1].v
    /\ ret[Main] = log[2].v /\ gl_ret.value = log[2].v
    /\ LF_size = 1

(***************************************************************************)
(* SpecLockedSeq: calls on a LockedList one after the other, in any order, *)
(* on lists of up to MaxLen + 1 elements.                                  *)
(***************************************************************************)
LS_call(c) ==
    /\ c.kind /= "begin"
    /\ c.kind = "push_back" => GLLen <= MaxLen
    /\ c.kind \in {"pop_front", "front", "back"} => head_ /= Nil
    /\ GLExec(Main, c)
    /\ UNCHANGED <<waiting, lfvars, plan, log, snapLF, rtS, rtOut, rtPhase>>

NextLockedSeq == \E c \in GLCalls : LS_call(c)
SpecLockedSeq == InitLocked /\ [][NextLockedSeq]_vars

\* C20: after every completed push_back, pop_front, try_pop_front or
\* remove, head_ is empty iff tail_ is empty, and on a non-empty list tail_
\* is the last node reachable from head_ and its next_ is empty; the
\* assertions of back, push_back and try_pop_front hold.
C20_HeadTail ==
    /\ head_ = Nil <=> tail_ = Nil
    /\ head_ /= Nil =>
          /\ tail_ = Last(GL_chain(GL_list, head_, MaxGLNodes))
          /\ gl_next[tail_] = Nil
    /\ gl_ret.ok

C20_Witness ==
    /\ gl_ret.kind = "remove"
    /\ Len(snapGL) = 3 /\ snapGL[1] = snapGL[3] /\ snapGL[1] /= snapGL[2]
    /\ GL_iterate(GL_list) = <<snapGL[2]>>
    /\ head_ /= Nil /\ tail_ = head_

(***************************************************************************)
(* SpecLFOps: the main thread builds a LockFreeList, then every worker     *)
(* makes one call, all of them concurrently.                               *)
(***************************************************************************)
OpProgs ==
    {<<Pop>>, <<Front>>, <<Remove(1)>>, <<Remove(2)>>, <<Call("push_back", 3)>>}
OpSetups == {<<1, 2>>, <<2, 1, 2>>}

InitLFOps == InitLF(Plans(OpSetups, OpProgs)) /\ InitGL /\ InitCaller
SpecLFOps == InitLFOps /\ [][NextLF]_vars

\* C13: under every interleaving the sentinel's link is unmarked and head_
\* designates the sentinel (a live node), so assert(!head_->is_marked())
\* holds wherever size, front, pop_front or push_back evaluate it.
C13_SentinelUnmarked ==
    /\ ~marked[Sentinel]
    /\ alloc[Sentinel] = "live"
    /\ ~HeadAssertFails

C13_Witness ==
    /\ ~marked[Sentinel] /\ AllDone /\ ~aborted
    /\ \E t \in Workers : plan[t] = <<Pop>>
    /\ \E t \in Workers : plan[t] = <<Remove(2)>>
    /\ \E n \in Nodes : unlinks[n] = 1 /\ alloc[n] = "dead"
    /\ MarkedReachable

\* C14: the mark of a link is monotonic: once a node's link is marked, no
\* step of any call unmarks it or changes the node it refers to.
C14_MarkMonotonic ==
    [][\A n \in Nodes : marked[n] => (marked'[n] /\ next_'[n] = next_[n])]_vars

\* remove has just tried its CAS on a marked link: the link still refers to
\* the node remove wanted to unlink.
C14_Witness ==
    \E t \in Workers :
        /\ pc[t] = "rem_adv"
        /\ pp[t] /= Nil /\ marked[pp[t]] /\ next_[pp[t]] = p[t]
        /\ marked[p[t]] /\ unlinks[p[t]] = 0

\* C15: a thread gets to its unlink (the CAS of remove, the assignment of
\* pop_front) only in the step in which its own mark() on that node set
\* the mark; so a node is unlinked and released at most once, and only
\* after a mark() on it returned true.
C15_UnlinkAfterOwnMark ==
    [][/\ \A t \in Threads :
            /\ (pc'[t] = "rem_cas" /\ pc[t] /= "rem_cas") =>
                   (~marked[p'[t]] /\ marked'[p'[t]] /\ pc[t] = "rem_loop")
            /\ (pc'[t] = "pop_load" /\ pc[t] /= "pop_load") =>
                   (~marked[cur'[t]] /\ marked'[cur'[t]] /\ pc[t] = "pop_mark")
            /\ (pc'[t] = "pop_store" /\ pc[t] /= "pop_store") =>
                   (pc[t] = "pop_load" /\ cur'[t] = cur[t])
       /\ \A n \in Nodes :
            /\ unlinks'[n] <= 1 /\ unlinks'[n] <= marks'[n]
            /\ unlinks'[n] > unlinks[n] =>
                   \E t \in Threads :
                       \/ pc[t] = "rem_cas" /\ pc'[t] /= pc[t] /\ p[t] = n
                       \/ pc[t] = "pop_store" /\ pc'[t] /= pc[t] /\ cur[t] = n]_vars

\* pop_front and remove(1) went for the same node: one mark() returned true
\* and the node was unlinked once.
C15_Witness ==
    /\ AllDone /\ ~aborted
    /\ \E t \in Workers : plan[t] = <<Pop>>
    /\ \E t \in Workers : plan[t] = <<Remove(1)>>
    /\ plan[Main] = Pushes(<<1, 2>>)
    /\ \E n \in Nodes : value_[n] = 1 /\ marks[n] = 1 /\ unlinks[n] = 1

\* C16: from the step in which pop_front marks cur to the step in which it
\* writes the sentinel's link, that link refers to cur and cur's successor
\* does not change, whatever the other threads do; the write installs
\* cur's successor.
C16_PopStoreSafe ==
    [][\A t \in Threads :
          pc[t] \in {"pop_load", "pop_store"} =>
              /\ next_[Sentinel] = cur[t]
              /\ marked[cur[t]]
              /\ next_'[cur[t]] = next_[cur[t]]
              /\ pc[t] = "pop_store" => p[t] = next_[cur[t]]
              /\ (pc[t] = "pop_store" /\ pc'[t] /= "pop_store" /\ ~aborted') =>
                    next_'[Sentinel] = next_[cur[t]]]_vars

\* While pop_front stands before its write, a remove has marked cur's
\* successor and failed to unlink it from cur.
C16_Witness ==
    \E t, u \in Workers :
        /\ t /= u
        /\ pc[t] = "pop_store" /\ next_[Sentinel] = cur[t]
        /\ pc[u] = "rem_adv" /\ pp[u] = cur[t] /\ marked[p[u]]
        /\ p[t] = p[u]

\* C19: a push_back that has returned attached its node behind a node that
\* was unmarked and reachable: the node it pushed (alive, and unmarked as
\* long as nobody pops or removes it) is reachable from the sentinel.
C19_PushStaysReachable ==
    \A n \in Nodes \ {Sentinel} :
        (alloc[n] \in {"live", "lost"} /\ ~marked[n]) =>
            \E i \in 1 .. Len(Reachable) : Reachable[i] = n

(***************************************************************************)
(* SpecLFLater: on the list [1, 2, 3] a worker calls remove(2) and then    *)
(* remove(2) again and push_back(5), while the other workers pop.          *)
(***************************************************************************)
RemoveAndLater == <<Remove(2), Remove(2), Call("push_back", 5)>>
LaterProgs == {<<Pop>>, <<Pop, Front>>, RemoveAndLater}

InitLFLater == InitLF(Plans({<<1, 2, 3>>}, LaterProgs)) /\ InitGL /\ InitCaller
SpecLFLater == InitLFLater /\ [][NextLF]_vars

\* One worker removes 2 and makes its later calls, the others call
\* pop_front once: only the first remove(2) can mark the node of value 2.
LaterPlan ==
    /\ \E t \in Workers : plan[t] = RemoveAndLater
    /\ \A t \in Workers : plan[t] \in {RemoveAndLater, <<Pop>>}

\* C18: a node that remove marked and failed to unlink is made unreachable
\* by the calls that follow: once the later remove and push_back of the
\* same thread have returned, no marked node is reachable.
C18_LaterCleanup == (Quiescent /\ LaterPlan) => ~MarkedReachable

=============================================================================
